---- MODULE Spec2Model ----
(***************************************************************************)
(* Model of the finance_analysis_pipeline ingestion code:                  *)
(*   src/common/state_store.py        run ids and run metadata records     *)
(*   src/extract/yahoo_company_info.py  per-ticker company info extractor  *)
(*   src/extract/yahoo_prices.py      batched OHLCV price extractor        *)
(*   tests/test_local.py              the local driver (main and stages)   *)
(* Each component has its own specification; the variables of the other    *)
(* components stay at their idle values.                                   *)
(***************************************************************************)
EXTENDS Integers, Sequences, FiniteSets, TLC

VARIABLES
    \* ---- state_store.py
    clock,        \* the system clock read by datetime.now(), to the second
    ticks,        \* seconds elapsed since the start (bounds the clock)
    issued,       \* every generate_run_id() call so far: [id, ts, rand]
    lastCall,     \* arguments of the last create_run_metadata call
    lastRecord,   \* the record that call returned
    \* ---- yahoo_company_info.py
    ci_pc, ci_tickers, ci_i, ci_records, ci_outcomes, ci_now, ci_df,
    \* ---- yahoo_prices.py
    px_pc, px_args, px_request, px_data, px_result,
    \* ---- test_local.py
    d_pc,         \* the statement main() has reached
    d_results,    \* main's results dict, in insertion order: [stage, passed]
    d_trace,      \* the calls attempted so far: [step, outcome]
    d_loader,     \* the SnowflakeLoader of each routine: none, open, closed
    d_pending,    \* the value test_full_pipeline is about to return
    d_exit        \* how main() ended

runVars == <<clock, ticks, issued, lastCall, lastRecord>>
ciVars == <<ci_pc, ci_tickers, ci_i, ci_records, ci_outcomes, ci_now, ci_df>>
pxVars == <<px_pc, px_args, px_request, px_data, px_result>>
dVars == <<d_pc, d_results, d_trace, d_loader, d_pending, d_exit>>
vars == <<runVars, ciVars, pxVars, dVars>>

\* Python's None, and the NaN pandas puts in a cell that has no value.
None == "None"
NaN == "NaN"

----------------------------------------------------------------------------
(* Bounds of the model *)

MaxTicks == 1       \* seconds the clock may advance
MaxIds == 2         \* generate_run_id calls
MaxRand == 1        \* the random source yields 0..MaxRand
MaxTickers == 3     \* length of the company-info ticker list
MaxPxTickers == 2   \* length of the price ticker list

----------------------------------------------------------------------------
(* Strings as sequences of character codes (ASCII), compared as Python     *)
(* compares str: lexicographically by code point.                          *)

Min(a, b) == IF a <= b THEN a ELSE b

StrLess(a, b) ==
    \/ \E k \in 1..Min(Len(a), Len(b)) :
          /\ \A j \in 1..(k - 1) : a[j] = b[j]
          /\ a[k] < b[k]
    \/ /\ Len(a) < Len(b)
       /\ \A j \in 1..Len(a) : a[j] = b[j]

StrLE(a, b) == a = b \/ StrLess(a, b)

RECURSIVE Pow(_, _)
Pow(b, e) == IF e = 0 THEN 1 ELSE b * Pow(b, e - 1)

Digit(d) == 48 + d
HexDigit(h) == IF h < 10 THEN 48 + h ELSE 87 + h

\* n in decimal, zero-padded to w digits (strftime's %Y, %m, %d, %H, %M, %S)
Pad(n, w) == [i \in 1..w |-> Digit((n \div Pow(10, w - i)) % 10)]

Pad2Unpadded(n) == IF n < 10 THEN <<Digit(n)>> ELSE Pad(n, 2)
Pad2(n) == Pad(n, 2)

\* datetime.now().strftime('%Y%m%d_%H%M%S')
Strftime(t) ==
    Pad(t.Y, 4) \o Pad2(t.M) \o Pad2(t.D) \o <<95>> \o
    Pad2(t.h) \o Pad2(t.m) \o Pad2(t.s)

\* uuid.uuid4().hex[:8]: the top 32 bits of the uuid as 8 lowercase hex digits
Hex8(r) == [i \in 1..8 |-> HexDigit((r \div Pow(16, 8 - i)) % 16)]

\* f"run_{...}_{...}"
FormatRunId(t, r) == <<114, 117, 110, 95>> \o Strftime(t) \o <<95>> \o Hex8(r)

----------------------------------------------------------------------------
(* The system clock *)

IsLeap(y) == (y % 4 = 0 /\ y % 100 # 0) \/ y % 400 = 0

DaysInMonth(y, m) ==
    IF m = 2 THEN (IF IsLeap(y) THEN 29 ELSE 28)
    ELSE IF m \in {4, 6, 9, 11} THEN 30 ELSE 31

\* one second later
TickClock(t) ==
    IF t.s < 59 THEN [t EXCEPT !.s = t.s + 1]
    ELSE IF t.m < 59 THEN [t EXCEPT !.s = 0, !.m = t.m + 1]
    ELSE IF t.h < 23 THEN [t EXCEPT !.s = 0, !.m = 0, !.h = t.h + 1]
    ELSE IF t.D < DaysInMonth(t.Y, t.M)
         THEN [t EXCEPT !.s = 0, !.m = 0, !.h = 0, !.D = t.D + 1]
    ELSE IF t.M < 12
         THEN [t EXCEPT !.s = 0, !.m = 0, !.h = 0, !.D = 1, !.M = t.M + 1]
    ELSE [t EXCEPT !.s = 0, !.m = 0, !.h = 0, !.D = 1, !.M = 1, !.Y = t.Y + 1]

\* the instants a run may start at: the last second of a year, and a second
\* before the seconds' tens digit changes
StartInstants ==
    { [Y |-> 2023, M |-> 12, D |-> 31, h |-> 23, m |-> 59, s |-> 59],
      [Y |-> 2024, M |-> 6, D |-> 15, h |-> 9, m |-> 5, s |-> 9] }

RandSource == 0..MaxRand

----------------------------------------------------------------------------
(* state_store.py *)

DatasetNames == {"stock_prices_daily", "company_info"}
\* values a caller may pass; an argument may also be left out
StatusArgs == {"completed", "failed", "paused"}
RecordsLoadedArgs == {-1, 7}
ErrorArgs == {"connection lost"}

\* A call's keyword arguments: has_x tells whether x was passed at all
\* (an omitted argument is written here with its default).
NoCall == [made |-> FALSE]

CallArgs ==
    { [made |-> TRUE, dataset_name |-> d,
       has_status |-> s # "omitted",
       status |-> IF s = "omitted" THEN "started" ELSE s,
       has_records_loaded |-> r # 0,
       records_loaded |-> r,
       has_error_message |-> e # "omitted",
       error_message |-> IF e = "omitted" THEN None ELSE e] :
         d \in DatasetNames,
         s \in StatusArgs \cup {"omitted"},
         r \in RecordsLoadedArgs \cup {0},
         e \in ErrorArgs \cup {"omitted"} }

\* the parameter defaults of create_run_metadata's signature
StatusParam(c) == IF c.has_status THEN c.status ELSE "started"
RecordsLoadedParam(c) == IF c.has_records_loaded THEN c.records_loaded ELSE 0
ErrorMessageParam(c) == IF c.has_error_message THEN c.error_message ELSE None

\* generate_run_id(): one clock reading, one draw of the random source
generate_run_id(t, r) == [id |-> FormatRunId(t, r), ts |-> t, rand |-> r]

create_run_metadata_NoError(c, run_id, now) ==
    [run_id |-> run_id,
     dataset_name |-> c.dataset_name,
     run_timestamp |-> now,
     status |-> StatusParam(c),
     records_loaded |-> RecordsLoadedParam(c),
     error_message |-> IF StatusParam(c) = "failed" THEN ErrorMessageParam(c)
                       ELSE None]

\* the dictionary create_run_metadata returns
create_run_metadata(c, run_id, now) ==
    [run_id |-> run_id,
     dataset_name |-> c.dataset_name,
     run_timestamp |-> now,
     status |-> StatusParam(c),
     records_loaded |-> RecordsLoadedParam(c),
     error_message |-> ErrorMessageParam(c)]

NoRecord == [run_id |-> <<>>]

RunInit ==
    /\ clock \in StartInstants
    /\ ticks = 0
    /\ issued = <<>>
    /\ lastCall = NoCall
    /\ lastRecord = NoRecord

RunIdle ==
    /\ clock = [Y |-> 2024, M |-> 6, D |-> 15, h |-> 9, m |-> 5, s |-> 9]
    /\ ticks = 0
    /\ issued = <<>>
    /\ lastCall = NoCall
    /\ lastRecord = NoRecord

\* a second passes
Tick ==
    /\ ticks < MaxTicks
    /\ clock' = TickClock(clock)
    /\ ticks' = ticks + 1
    /\ UNCHANGED <<issued, lastCall, lastRecord>>
    /\ UNCHANGED <<ciVars, pxVars, dVars>>

\* a caller invokes generate_run_id() directly
GenerateRunId ==
    /\ Len(issued) < MaxIds
    /\ \E r \in RandSource :
          issued' = Append(issued, generate_run_id(clock, r))
    /\ lastCall' = NoCall
    /\ lastRecord' = NoRecord
    /\ UNCHANGED <<clock, ticks>>
    /\ UNCHANGED <<ciVars, pxVars, dVars>>

\* a caller invokes create_run_metadata(...): the run id is generated first,
\* then the clock is read again for run_timestamp (a second may have passed)
CreateRunMetadata ==
    /\ Len(issued) < MaxIds
    /\ \E r \in RandSource, late \in BOOLEAN :
          LET g == generate_run_id(clock, r)
          IN  /\ late => ticks < MaxTicks
              /\ clock' = IF late THEN TickClock(clock) ELSE clock
              /\ ticks' = IF late THEN ticks + 1 ELSE ticks
              /\ issued' = Append(issued, g)
              /\ \E c \in CallArgs :
                    /\ lastCall' = c
                    /\ lastRecord' = create_run_metadata(c, g.id, clock')
    /\ UNCHANGED <<ciVars, pxVars, dVars>>

----------------------------------------------------------------------------
(* yahoo_company_info.py *)

Symbols == {"AAA", "BBB"}

\* dict.get(key, default)
Get(d, key, default) == IF key \in DOMAIN d THEN d[key] ELSE default

\* what yf.Ticker(symbol).info may hold: a dict with any part of the keys
Infos ==
    { [longName |-> "Alpha Inc.", shortName |-> "Alpha", sector |-> "Tech",
       industry |-> "Software", marketCap |-> "3.1e12", trailingPE |-> "31.2",
       dividendYield |-> "0.005", beta |-> "1.2", country |-> "US",
       fullTimeEmployees |-> "164000"],
      [shortName |-> "Beta", sector |-> "Energy"],
      [k \in {} |-> None] }

\* str(e) of the exception a failed fetch raises
FetchErrors == {"HTTP Error 404", "Read timed out"}

\* the keys of the record literal, in the order the code writes them
FullColumns ==
    <<"symbol", "company_name", "sector", "industry", "market_cap",
      "enterprise_value", "pe_ratio", "forward_pe", "peg_ratio",
      "price_to_book", "dividend_yield", "beta", "fifty_two_week_high",
      "fifty_two_week_low", "fifty_day_average", "two_hundred_day_average",
      "shares_outstanding", "float_shares", "employees", "country", "city",
      "website", "business_summary", "ingested_at">>

\* the keys of the minimal record of the except branch
ErrColumns == <<"symbol", "ingested_at", "error">>

Range(f) == {f[i] : i \in DOMAIN f}

\* the record built from ticker.info on the success path
BuildRecord(symbol, info, now) ==
    [symbol |-> symbol,
     company_name |-> Get(info, "longName", Get(info, "shortName", symbol)),
     sector |-> Get(info, "sector", None),
     industry |-> Get(info, "industry", None),
     market_cap |-> Get(info, "marketCap", None),
     enterprise_value |-> Get(info, "enterpriseValue", None),
     pe_ratio |-> Get(info, "trailingPE", None),
     forward_pe |-> Get(info, "forwardPE", None),
     peg_ratio |-> Get(info, "pegRatio", None),
     price_to_book |-> Get(info, "priceToBook", None),
     dividend_yield |-> Get(info, "dividendYield", None),
     beta |-> Get(info, "beta", None),
     fifty_two_week_high |-> Get(info, "fiftyTwoWeekHigh", None),
     fifty_two_week_low |-> Get(info, "fiftyTwoWeekLow", None),
     fifty_day_average |-> Get(info, "fiftyDayAverage", None),
     two_hundred_day_average |-> Get(info, "twoHundredDayAverage", None),
     shares_outstanding |-> Get(info, "sharesOutstanding", None),
     float_shares |-> Get(info, "floatShares", None),
     employees |-> Get(info, "fullTimeEmployees", None),
     country |-> Get(info, "country", None),
     city |-> Get(info, "city", None),
     website |-> Get(info, "website", None),
     business_summary |-> Get(info, "longBusinessSummary", None),
     ingested_at |-> now]

\* the minimal record of the except branch
ErrorRecord(symbol, now, e) ==
    [symbol |-> symbol, ingested_at |-> now, error |-> e]

OnFetchErrorReraise(recs, symbol, now, e) ==
    [pc |-> "raised", records |-> recs]

\* except Exception as e: append the minimal record and continue the loop
OnFetchError(recs, symbol, now, e) ==
    [pc |-> "loop", records |-> Append(recs, ErrorRecord(symbol, now, e))]

\* key order of a dict of the records list
KeyOrder(rec) == IF "error" \in DOMAIN rec THEN ErrColumns ELSE FullColumns

\* s followed by the elements of t that s does not hold yet (t holds no
\* element twice: it is the key list of a dict, or a frame's columns)
AppendNew(s, t) == s \o SelectSeq(t, LAMBDA x : x \notin Range(s))

\* the columns of pd.DataFrame(list of dicts): the keys in first-seen order
RECURSIVE UnionColumns(_, _)
UnionColumns(recs, acc) ==
    IF recs = <<>> THEN acc
    ELSE UnionColumns(Tail(recs), AppendNew(acc, KeyOrder(Head(recs))))

\* pd.DataFrame(records): one row per dict, NaN where a dict lacks a column
DataFrame(recs) ==
    LET cols == UnionColumns(recs, <<>>)
    IN  [columns |-> cols,
         rows |-> [k \in 1..Len(recs) |->
                     [c \in Range(cols) |->
                        IF c \in DOMAIN recs[k] THEN recs[k][c] ELSE NaN]]]

RECURSIVE SeqsUpTo(_, _)
SeqsUpTo(S, n) ==
    IF n = 0 THEN {<<>>}
    ELSE LET shorter == SeqsUpTo(S, n - 1)
         IN  shorter \cup {Append(q, x) : q \in shorter, x \in S}

NoFrame == [columns |-> <<>>, rows |-> <<>>]

CiInit ==
    /\ ci_pc = "loop"
    /\ ci_tickers \in SeqsUpTo(Symbols, MaxTickers)
    /\ ci_i = 1
    /\ ci_records = <<>>
    /\ ci_outcomes = <<>>
    /\ ci_now = 0
    /\ ci_df = NoFrame

CiIdle ==
    /\ ci_pc = "idle"
    /\ ci_tickers = <<>>
    /\ ci_i = 1
    /\ ci_records = <<>>
    /\ ci_outcomes = <<>>
    /\ ci_now = 0
    /\ ci_df = NoFrame

\* one pass of the for loop: the try body for ticker ci_i, or its handler
FetchTicker ==
    /\ ci_pc = "loop"
    /\ ci_i <= Len(ci_tickers)
    /\ \E slow \in BOOLEAN :
          ci_now' = IF slow THEN ci_now + 1 ELSE ci_now
    /\ \/ \E info \in Infos :
             /\ ci_records' = Append(ci_records,
                                     BuildRecord(ci_tickers[ci_i], info, ci_now'))
             /\ ci_outcomes' = Append(ci_outcomes, "ok")
             /\ ci_pc' = "loop"
       \/ \E e \in FetchErrors :
             LET h == OnFetchError(ci_records, ci_tickers[ci_i], ci_now', e)
             IN  /\ ci_records' = h.records
                 /\ ci_outcomes' = Append(ci_outcomes, "failed")
                 /\ ci_pc' = h.pc
    /\ ci_i' = ci_i + 1
    /\ UNCHANGED <<ci_tickers, ci_df>>
    /\ UNCHANGED <<runVars, pxVars, dVars>>

\* after the loop: df = pd.DataFrame(records); return df
ReturnFrame ==
    /\ ci_pc = "loop"
    /\ ci_i > Len(ci_tickers)
    /\ ci_df' = DataFrame(ci_records)
    /\ ci_pc' = "done"
    /\ UNCHANGED <<ci_tickers, ci_i, ci_records, ci_outcomes, ci_now>>
    /\ UNCHANGED <<runVars, pxVars, dVars>>


----------------------------------------------------------------------------
(* yahoo_prices.py *)

\* a table: [columns |-> sequence of names, rows |-> sequence of value rows]
EmptyDataFrame == [columns |-> <<>>, rows |-> <<>>]

IndexOf(s, x) == CHOOSE i \in 1..Len(s) : s[i] = x

Today == "2024-06-15"
IngestedAt == "2024-06-15 09:05:09"

StartDates == {None, "2024-01-02"}
EndDates == {None, "2024-01-31"}
Periods == {"1y", "5d"}

\* Python truthiness of an Optional[str]
Truthy(x) == x # None /\ x # ""

OhlcvColumns == <<"Open", "High", "Low", "Close", "Adj Close", "Volume">>

\* frames the provider may hand back for one ticker, indexed by Date
ProviderFrames ==
    { [index |-> "Date", dates |-> <<"2024-01-02", "2024-01-03">>,
       columns |-> OhlcvColumns,
       rows |-> << <<"10", "12", "9", "11", "11", "500">>,
                   <<"11", "13", "10", NaN, NaN, "650">> >>],
      [index |-> "Date", dates |-> <<"2024-01-02">>,
       columns |-> OhlcvColumns,
       rows |-> << <<"20", "22", "19", "21", "21", NaN>> >>],
      [index |-> "Date", dates |-> <<"2024-01-02">>,
       columns |-> <<"Open", "High", "Low", "Close", "Volume">>,
       rows |-> << <<"30", "32", "29", "31", "900">> >>],
      [index |-> "Date", dates |-> <<>>,
       columns |-> OhlcvColumns,
       rows |-> <<>>] }

\* what yf.download(..., group_by='ticker') may return: one flat frame for a
\* single ticker, else frames keyed by the tickers that have data
ProviderData(tickers) ==
    IF Len(tickers) = 1
    THEN {[kind |-> "flat", frame |-> f] : f \in ProviderFrames}
    ELSE {[kind |-> "grouped", frames |-> g] :
            g \in UNION {[S -> ProviderFrames] : S \in SUBSET Range(tickers)}}

\* if start_date and end_date: download(start=, end=) else download(period=)
DownloadRequest(a) ==
    IF Truthy(a.start_date) /\ Truthy(a.end_date)
    THEN [kind |-> "range", start |-> a.start_date, end |-> a.end_date]
    ELSE [kind |-> "period", period |-> a.period]

\* df['symbol'] = ticker; df = df.reset_index()
WithSymbolResetIndex(f, ticker) ==
    [columns |-> <<f.index>> \o f.columns \o <<"symbol">>,
     rows |-> [k \in 1..Len(f.rows) |->
                 <<f.dates[k]>> \o f.rows[k] \o <<ticker>>]]

\* pd.concat(dfs, ignore_index=True)
RECURSIVE ConcatColumns(_, _)
ConcatColumns(dfs, acc) ==
    IF dfs = <<>> THEN acc
    ELSE ConcatColumns(Tail(dfs), AppendNew(acc, Head(dfs).columns))

Realign(t, cols) ==
    [k \in 1..Len(t.rows) |->
       [j \in 1..Len(cols) |->
          IF cols[j] \in Range(t.columns)
          THEN t.rows[k][IndexOf(t.columns, cols[j])] ELSE NaN]]

RECURSIVE ConcatRows(_, _)
ConcatRows(dfs, cols) ==
    IF dfs = <<>> THEN <<>>
    ELSE Realign(Head(dfs), cols) \o ConcatRows(Tail(dfs), cols)

Concat(dfs) ==
    LET cols == ConcatColumns(dfs, <<>>)
    IN  [columns |-> cols, rows |-> ConcatRows(dfs, cols)]

\* str.lower() on the column names the provider uses
Lower(name) ==
    CASE name = "Date" -> "date"
      [] name = "Open" -> "open"
      [] name = "High" -> "high"
      [] name = "Low" -> "low"
      [] name = "Close" -> "close"
      [] name = "Adj Close" -> "adj close"
      [] name = "Volume" -> "volume"
      [] OTHER -> name

\* the column_mapping dict: only 'adj close' changes its name
column_mapping(name) == IF name = "adj close" THEN "adj_close" ELSE name

final_columns ==
    <<"symbol", "date", "open", "high", "low", "close", "adj_close", "volume">>

\* df.columns = df.columns.str.lower(); df = df.rename(columns=column_mapping)
Normalize(t) ==
    [t EXCEPT !.columns = [j \in 1..Len(t.columns) |->
                              column_mapping(Lower(t.columns[j]))]]

\* df = df[final_columns]; df['ingested_at'] = datetime.now()
SelectAndStamp(t) ==
    [columns |-> Append(final_columns, "ingested_at"),
     rows |-> [k \in 1..Len(t.rows) |->
                 Append([j \in 1..Len(final_columns) |->
                           t.rows[k][IndexOf(t.columns, final_columns[j])]],
                        IngestedAt)]]

\* df = df.dropna(subset=['close', 'volume'])
DropNa(t) ==
    LET ci == IndexOf(t.columns, "close")
        vi == IndexOf(t.columns, "volume")
    IN  [t EXCEPT !.rows =
            SelectSeq(t.rows, LAMBDA row : row[ci] # NaN /\ row[vi] # NaN)]

\* the frames of the tickers data[ticker] finds; a KeyError skips the ticker
RECURSIVE CollectFrames(_, _)
CollectFrames(tickers, frames) ==
    IF tickers = <<>> THEN <<>>
    ELSE IF Head(tickers) \in DOMAIN frames
         THEN <<WithSymbolResetIndex(frames[Head(tickers)], Head(tickers))>>
              \o CollectFrames(Tail(tickers), frames)
         ELSE CollectFrames(Tail(tickers), frames)

\* the code after the download, to the return or the re-raise
Reshape(tickers, data) ==
    LET dfs == IF Len(tickers) = 1 THEN <<>>
               ELSE CollectFrames(tickers, data.frames)
    IN  IF Len(tickers) # 1 /\ dfs = <<>>
        THEN [pc |-> "done", result |-> EmptyDataFrame]
        ELSE LET df == IF Len(tickers) = 1
                       THEN WithSymbolResetIndex(data.frame, tickers[1])
                       ELSE Concat(dfs)
                 n == Normalize(df)
             IN  IF \E j \in 1..Len(final_columns) :
                       final_columns[j] \notin Range(n.columns)
                 THEN [pc |-> "raised", result |-> EmptyDataFrame]
                 ELSE [pc |-> "done", result |-> DropNa(SelectAndStamp(n))]

NoRequest == [kind |-> "none"]
NoData == [kind |-> "none"]
NoArgs == [tickers |-> <<>>, start_date |-> None, end_date |-> None,
           period |-> "1y"]

PxInit ==
    /\ px_pc = "start"
    /\ px_args \in [tickers : SeqsUpTo(Symbols, MaxPxTickers),
                    start_date : StartDates, end_date : EndDates,
                    period : Periods]
    /\ px_request = NoRequest
    /\ px_data = NoData
    /\ px_result = EmptyDataFrame

PxIdle ==
    /\ px_pc = "idle"
    /\ px_args = NoArgs
    /\ px_request = NoRequest
    /\ px_data = NoData
    /\ px_result = EmptyDataFrame

\* the yf.download call: it returns data, or raises and the except re-raises
Download ==
    /\ px_pc = "start"
    /\ px_request' = DownloadRequest(px_args)
    /\ \/ /\ px_data' \in ProviderData(px_args.tickers)
          /\ px_pc' = "downloaded"
       \/ /\ px_data' = NoData
          /\ px_pc' = "raised"
    /\ UNCHANGED <<px_args, px_result>>
    /\ UNCHANGED <<runVars, ciVars, dVars>>

\* reshape, normalise, select, stamp, drop: to the return or the re-raise
Transform ==
    /\ px_pc = "downloaded"
    /\ LET out == Reshape(px_args.tickers, px_data)
       IN  /\ px_pc' = out.pc
           /\ px_result' = out.result
    /\ UNCHANGED <<px_args, px_request, px_data>>
    /\ UNCHANGED <<runVars, ciVars, dVars>>


----------------------------------------------------------------------------
(* tests/test_local.py *)

Outcomes == {"ok", "raise"}

\* the keys of main's results dict, in the order main() evaluates them
StageOrder == <<"Profiles", "Snowflake Connection", "Extractors", "Full Pipeline">>

\* the calls inside test_full_pipeline's try block, in program order
FpTrySteps ==
    <<"fp_extract_prices", "fp_extract_company", "fp_extract_benchmark",
      "fp_construct", "fp_load_prices", "fp_load_company",
      "fp_load_benchmark", "fp_verify">>

\* the statement after step s of test_full_pipeline's try block
FpAfter(s) ==
    LET i == IndexOf(FpTrySteps, s)
    IN  IF i < Len(FpTrySteps) THEN FpTrySteps[i + 1] ELSE "fp_finally"

FpExceptContinue(s) == [pc |-> FpAfter(s), pending |-> "False"]

\* except Exception: ... return False  (the finally block runs next)
FpExcept(s) == [pc |-> "fp_finally", pending |-> "False"]

ExitCodeAny(results) ==
    IF \E i \in 1..Len(results) : results[i].passed THEN 0 ELSE 1

\* all_passed = all(results.values()); return 0 if all_passed else 1
ExitCode(results) ==
    IF \A i \in 1..Len(results) : results[i].passed THEN 0 ELSE 1

Running == [kind |-> "running"]

DInit ==
    /\ d_pc = "profiles"
    /\ d_results = <<>>
    /\ d_trace = <<>>
    /\ d_loader = [sc |-> "none", fp |-> "none"]
    /\ d_pending = "none"
    /\ d_exit = Running

DIdle ==
    /\ d_pc = "idle"
    /\ d_results = <<>>
    /\ d_trace = <<>>
    /\ d_loader = [sc |-> "none", fp |-> "none"]
    /\ d_pending = "none"
    /\ d_exit = Running

Attempt(step, o) == d_trace' = Append(d_trace, [step |-> step, outcome |-> o])

\* a test routine returns `passed` to main, which stores it and goes on
StageReturns(stage, passed, next) ==
    /\ d_results' = Append(d_results, [stage |-> stage, passed |-> passed])
    /\ d_pc' = next

\* an exception leaves main(): the process dies with a traceback
Escapes ==
    /\ d_pc' = "exited"
    /\ d_exit' = [kind |-> "raised"]
    /\ UNCHANGED d_results

\* test_profiles(): read_profiles and the three lookups, all inside the try
TestProfiles ==
    /\ d_pc = "profiles"
    /\ \E o \in Outcomes :
          /\ Attempt("profiles_read", o)
          /\ StageReturns("Profiles", o = "ok", "sc_construct")
    /\ UNCHANGED <<d_loader, d_pending, d_exit>>
    /\ UNCHANGED <<runVars, ciVars, pxVars>>

\* test_snowflake_connection(): loader = SnowflakeLoader(...)
ScConstruct ==
    /\ d_pc = "sc_construct"
    /\ \E o \in Outcomes :
          /\ Attempt("sc_construct", o)
          /\ IF o = "ok"
             THEN /\ d_loader' = [d_loader EXCEPT !.sc = "open"]
                  /\ d_pc' = "sc_query"
                  /\ UNCHANGED d_results
             ELSE /\ StageReturns("Snowflake Connection", FALSE, "ex_config")
                  /\ UNCHANGED d_loader
    /\ UNCHANGED <<d_pending, d_exit>>
    /\ UNCHANGED <<runVars, ciVars, pxVars>>

\* loader.execute_query(...) and the reads of its result
ScQuery ==
    /\ d_pc = "sc_query"
    /\ \E o \in Outcomes :
          /\ Attempt("sc_query", o)
          /\ IF o = "ok"
             THEN d_pc' = "sc_close" /\ UNCHANGED d_results
             ELSE StageReturns("Snowflake Connection", FALSE, "ex_config")
    /\ UNCHANGED <<d_loader, d_pending, d_exit>>
    /\ UNCHANGED <<runVars, ciVars, pxVars>>

\* loader.close(); return True
ScClose ==
    /\ d_pc = "sc_close"
    /\ d_loader' = [d_loader EXCEPT !.sc = "closed"]
    /\ \E o \in Outcomes :
          /\ Attempt("sc_close", o)
          /\ StageReturns("Snowflake Connection", o = "ok", "ex_config")
    /\ UNCHANGED <<d_pending, d_exit>>
    /\ UNCHANGED <<runVars, ciVars, pxVars>>

\* test_extractors(): open and parse config/tickers.yaml, before the try
ExConfig ==
    /\ d_pc = "ex_config"
    /\ \E o \in Outcomes :
          /\ Attempt("ex_config", o)
          /\ IF o = "ok"
             THEN /\ d_pc' = "ex_prices"
                  /\ UNCHANGED <<d_results, d_exit>>
             ELSE Escapes
    /\ UNCHANGED <<d_loader, d_pending>>
    /\ UNCHANGED <<runVars, ciVars, pxVars>>

\* extract_yahoo_prices(test_stocks, period="5d")
ExPrices ==
    /\ d_pc = "ex_prices"
    /\ \E o \in Outcomes :
          /\ Attempt("ex_prices", o)
          /\ IF o = "ok"
             THEN d_pc' = "ex_company" /\ UNCHANGED d_results
             ELSE StageReturns("Extractors", FALSE, "fp_config")
    /\ UNCHANGED <<d_loader, d_pending, d_exit>>
    /\ UNCHANGED <<runVars, ciVars, pxVars>>

\* extract_yahoo_company_info(test_stocks)
ExCompany ==
    /\ d_pc = "ex_company"
    /\ \E o \in Outcomes :
          /\ Attempt("ex_company", o)
          /\ IF o = "ok"
             THEN d_pc' = "ex_benchmark" /\ UNCHANGED d_results
             ELSE StageReturns("Extractors", FALSE, "fp_config")
    /\ UNCHANGED <<d_loader, d_pending, d_exit>>
    /\ UNCHANGED <<runVars, ciVars, pxVars>>

\* extract_yahoo_benchmark_series(test_benchmarks, period="5d"); return True
ExBenchmark ==
    /\ d_pc = "ex_benchmark"
    /\ \E o \in Outcomes :
          /\ Attempt("ex_benchmark", o)
          /\ StageReturns("Extractors", o = "ok", "fp_config")
    /\ UNCHANGED <<d_loader, d_pending, d_exit>>
    /\ UNCHANGED <<runVars, ciVars, pxVars>>

\* test_full_pipeline(): open and parse config/tickers.yaml, before the try
FpConfig ==
    /\ d_pc = "fp_config"
    /\ \E o \in Outcomes :
          /\ Attempt("fp_config", o)
          /\ IF o = "ok"
             THEN /\ d_pc' = FpTrySteps[1]
                  /\ UNCHANGED <<d_results, d_exit>>
             ELSE Escapes
    /\ UNCHANGED <<d_loader, d_pending>>
    /\ UNCHANGED <<runVars, ciVars, pxVars>>

\* one call of the try block: the three extractions, the loader's
\* construction, the three loads, the verifying query; then return True
FpTry ==
    /\ d_pc \in Range(FpTrySteps)
    /\ \E o \in Outcomes :
          /\ Attempt(d_pc, o)
          /\ IF o = "ok"
             THEN /\ d_pc' = FpAfter(d_pc)
                  /\ d_pending' = IF FpAfter(d_pc) = "fp_finally"
                                  THEN "True" ELSE d_pending
                  /\ d_loader' = IF d_pc = "fp_construct"
                                 THEN [d_loader EXCEPT !.fp = "open"]
                                 ELSE d_loader
             ELSE /\ d_pc' = FpExcept(d_pc).pc
                  /\ d_pending' = FpExcept(d_pc).pending
                  /\ UNCHANGED d_loader
    /\ UNCHANGED <<d_results, d_exit>>
    /\ UNCHANGED <<runVars, ciVars, pxVars>>

\* finally: if loader: loader.close(); then the pending return happens
FpFinally ==
    /\ d_pc = "fp_finally"
    /\ IF d_loader.fp = "open"
       THEN /\ d_loader' = [d_loader EXCEPT !.fp = "closed"]
            /\ \E o \in Outcomes :
                  /\ Attempt("fp_close", o)
                  /\ IF o = "ok"
                     THEN /\ StageReturns("Full Pipeline", d_pending = "True",
                                          "summary")
                          /\ UNCHANGED d_exit
                     ELSE Escapes
       ELSE /\ StageReturns("Full Pipeline", d_pending = "True", "summary")
            /\ UNCHANGED <<d_trace, d_loader, d_exit>>
    /\ UNCHANGED d_pending
    /\ UNCHANGED <<runVars, ciVars, pxVars>>

\* the summary and main's return value, which sys.exit receives
MainReturn ==
    /\ d_pc = "summary"
    /\ d_pc' = "exited"
    /\ d_exit' = [kind |-> "returned", code |-> ExitCode(d_results)]
    /\ UNCHANGED <<d_results, d_trace, d_loader, d_pending>>
    /\ UNCHANGED <<runVars, ciVars, pxVars>>

----------------------------------------------------------------------------
(* The specifications, one per component *)

Init == RunInit /\ CiIdle /\ PxIdle /\ DIdle
Next == Tick \/ GenerateRunId \/ CreateRunMetadata
Spec == Init /\ [][Next]_vars

InitInfo == RunIdle /\ CiInit /\ PxIdle /\ DIdle
NextInfo == FetchTicker \/ ReturnFrame
SpecInfo == InitInfo /\ [][NextInfo]_vars

InitPrices == RunIdle /\ CiIdle /\ PxInit /\ DIdle
NextPrices == Download \/ Transform
SpecPrices == InitPrices /\ [][NextPrices]_vars

InitDriver == RunIdle /\ CiIdle /\ PxIdle /\ DInit
NextDriver ==
    \/ TestProfiles
    \/ ScConstruct \/ ScQuery \/ ScClose
    \/ ExConfig \/ ExPrices \/ ExCompany \/ ExBenchmark
    \/ FpConfig \/ FpTry \/ FpFinally
    \/ MainReturn
SpecDriver == InitDriver /\ [][NextDriver]_vars

----------------------------------------------------------------------------
(* Properties of state_store.py, checked under Spec *)

\* clock readings as a number that orders them (a mixed-radix key)
ClockKey(t) ==
    ((((t.Y - 2023) * 13 + t.M) * 32 + t.D) * 24 + t.h) * 3600 + t.m * 60 + t.s

IssuedIds(n) == {issued[i].id : i \in 1..n}

DefaultCall(c) ==
    c.made /\ ~c.has_status /\ ~c.has_records_loaded /\ ~c.has_error_message

\* C1: the run ids returned by any sequence of generate_run_id() calls,
\* calls within the same clock second included, are pairwise distinct.
C1_RunIdsDistinct ==
    \A i, j \in 1..Len(issued) : i # j => issued[i].id # issued[j].id

\* C2: create_run_metadata(dataset_name) with the dataset name only returns
\* status started, records_loaded 0, error_message None and the dataset name
\* passed, and every call's run_id differs from every run id generated before.
C2_DefaultsAndFreshRunId ==
    lastCall.made =>
       /\ DefaultCall(lastCall) =>
             /\ lastRecord.status = "started"
             /\ lastRecord.records_loaded = 0
             /\ lastRecord.error_message = None
             /\ lastRecord.dataset_name = lastCall.dataset_name
       /\ lastRecord.run_id = issued[Len(issued)].id
       /\ lastRecord.run_id \notin IssuedIds(Len(issued) - 1)

\* C8 as stated: of two run ids, the one generated first sorts no later than
\* the one generated second, also when both fall within one clock second.
C8_IdsSortByGeneration ==
    \A i, j \in 1..Len(issued) :
       i < j => StrLE(issued[i].id, issued[j].id)

\* C8 amended: a run id generated in an earlier clock second sorts strictly
\* before one generated in a later second; two ids of the same second sort by
\* their random suffixes, whichever was generated first.
C8_IdsSortBySecond ==
    \A i, j \in 1..Len(issued) :
       /\ ClockKey(issued[i].ts) < ClockKey(issued[j].ts)
             => StrLess(issued[i].id, issued[j].id)
       /\ issued[i].ts = issued[j].ts
             => (StrLE(issued[i].id, issued[j].id)
                    <=> issued[i].rand <= issued[j].rand)

\* two ids generated a second apart, across the change from 9 to 10 seconds,
\* and two ids of one second whose suffixes are in the opposite order
C8_Witness ==
    /\ Len(issued) >= 2
    /\ \/ /\ issued[1].ts.s = 9
          /\ issued[2].ts.s = 10
       \/ /\ issued[1].ts.s = 59
          /\ issued[2].ts.s = 0
    /\ StrLess(issued[1].id, issued[2].id)

RecordValid(r) ==
    /\ r.status \in {"started", "completed", "failed"}
    /\ r.records_loaded >= 0
    /\ (r.error_message # None => r.status = "failed")

\* C9 as stated: every record create_run_metadata returns has a status among
\* started, completed, failed, a non-negative records_loaded, and an
\* error_message only when the status is failed.
C9_RecordInvariants == lastCall.made => RecordValid(lastRecord)

\* C9 amended: create_run_metadata validates nothing: status, records_loaded
\* and error_message of the record are the arguments as passed (started, 0,
\* None when left out), so the record satisfies the three invariants exactly
\* when the arguments do, and always for a call with the dataset name only.
C9_RecordStoresArguments ==
    lastCall.made =>
       /\ lastRecord.status = lastCall.status
       /\ lastRecord.records_loaded = lastCall.records_loaded
       /\ lastRecord.error_message = lastCall.error_message
       /\ lastRecord.dataset_name = lastCall.dataset_name
       /\ RecordValid(lastRecord) <=> RecordValid(lastCall)
       /\ DefaultCall(lastCall) => RecordValid(lastRecord)

\* a record with an error message although its status is completed
C9_Witness ==
    /\ lastCall.made
    /\ lastRecord.status = "completed"
    /\ lastRecord.error_message = "connection lost"
    /\ lastRecord.records_loaded = 7

----------------------------------------------------------------------------
(* Properties of yahoo_company_info.py, checked under SpecInfo *)

\* C3: a failed fetch never makes extract_yahoo_company_info raise; the loop
\* visits every ticker and the result holds one record per input ticker, in
\* input order: symbol, ingested_at and error only for a failed ticker, the
\* full field set for a fetched one, whatever happened to the other tickers.
C3_OneRecordPerTicker ==
    /\ ci_pc # "raised"
    /\ Len(ci_records) = ci_i - 1
    /\ Len(ci_outcomes) = ci_i - 1
    /\ ci_i <= Len(ci_tickers) + 1
    /\ \A k \in 1..Len(ci_records) :
          /\ ci_records[k].symbol = ci_tickers[k]
          /\ ci_outcomes[k] = "failed"
                => DOMAIN ci_records[k] = {"symbol", "ingested_at", "error"}
          /\ ci_outcomes[k] = "ok"
                => DOMAIN ci_records[k] = Range(FullColumns)
    /\ ci_pc = "done" =>
          /\ ci_i = Len(ci_tickers) + 1
          /\ Len(ci_df.rows) = Len(ci_tickers)
          /\ \A k \in 1..Len(ci_tickers) :
                ci_df.rows[k]["symbol"] = ci_tickers[k]
          /\ ci_tickers = <<>> => ci_df.rows = <<>>

\* a returned frame of three tickers, the second of which failed
C3_Witness ==
    /\ ci_pc = "done"
    /\ Len(ci_tickers) = 3
    /\ ci_outcomes = <<"ok", "failed", "ok">>
    /\ Len(ci_df.rows) = 3

----------------------------------------------------------------------------
(* Properties of yahoo_prices.py, checked under SpecPrices *)

\* C7: every table extract_yahoo_prices returns, on every return path, has
\* exactly the columns symbol, date, open, high, low, close, adj_close,
\* volume, ingested_at, in that order.
C7_ReturnedColumns ==
    px_pc = "done" =>
       px_result.columns = Append(final_columns, "ingested_at")

\* C10: with a start_date the download uses the range from start_date to
\* end_date (today when end_date is None); the period is used only when
\* start_date is None.
C10_DateWindow ==
    px_request.kind # "none" =>
       IF px_args.start_date # None
       THEN /\ px_request.kind = "range"
            /\ px_request.start = px_args.start_date
            /\ px_request.end = IF px_args.end_date = None THEN Today
                                ELSE px_args.end_date
       ELSE /\ px_request.kind = "period"
            /\ px_request.period = px_args.period

----------------------------------------------------------------------------
(* Properties of tests/test_local.py, checked under SpecDriver *)

Returned(stage) == \E i \in 1..Len(d_results) : d_results[i].stage = stage
Passed(stage) ==
    \E i \in 1..Len(d_results) :
       d_results[i].stage = stage /\ d_results[i].passed
Attempted(step) == \E i \in 1..Len(d_trace) : d_trace[i].step = step
Raised(step) ==
    \E i \in 1..Len(d_trace) :
       d_trace[i].step = step /\ d_trace[i].outcome = "raise"
Succeeded(step) ==
    \E i \in 1..Len(d_trace) :
       d_trace[i].step = step /\ d_trace[i].outcome = "ok"

\* test_full_pipeline was entered and has been left, by return or exception
FpLeft == Attempted(FpTrySteps[1]) /\ d_pc \in {"summary", "exited"}

\* C4: in test_snowflake_connection and test_full_pipeline, once the loader
\* was constructed, loader.close() has been called by the time the routine
\* is left, whether the calls in between succeeded or raised.
C4_LoaderClosedOnReturn ==
    /\ Returned("Snowflake Connection") => d_loader.sc # "open"
    /\ FpLeft => d_loader.fp # "open"

Datasets == {"prices", "company", "benchmark"}
ExtractOf(x) == "fp_extract_" \o x
LoadOf(x) == "fp_load_" \o x

\* C5 as stated: in test_full_pipeline a failure raised by the extract or
\* load of one dataset does not keep the other datasets' extract from being
\* attempted, nor their load once their extract succeeded.
C5_DatasetsIndependent ==
    FpLeft =>
       \A x \in Datasets :
          (Raised(ExtractOf(x)) \/ Raised(LoadOf(x))) =>
             \A y \in Datasets \ {x} :
                /\ Attempted(ExtractOf(y))
                /\ Succeeded(ExtractOf(y)) => Attempted(LoadOf(y))

\* the calls of test_full_pipeline's try block attempted so far
FpTrace == SelectSeq(d_trace, LAMBDA e : e.step \in Range(FpTrySteps))

\* C5 amended: test_full_pipeline runs the three extractions, the loader's
\* construction, the three loads and the verifying query in that order in
\* one try block; each is attempted only if all before it succeeded, the
\* first to raise ends the routine with no later extract or load attempted,
\* and whenever the routine returns, it returns True exactly when all eight
\* succeeded.
C5_FailFast ==
    /\ Len(FpTrace) <= Len(FpTrySteps)
    /\ \A k \in 1..Len(FpTrace) :
          /\ FpTrace[k].step = FpTrySteps[k]
          /\ k < Len(FpTrace) => FpTrace[k].outcome = "ok"
    /\ Returned("Full Pipeline") =>
          (Passed("Full Pipeline")
              <=> /\ Len(FpTrace) = Len(FpTrySteps)
                  /\ \A k \in 1..Len(FpTrace) : FpTrace[k].outcome = "ok")

\* the price load raised: the routine returned False, the loader was closed,
\* and the company and benchmark loads were never attempted
C5_Witness ==
    /\ Returned("Full Pipeline")
    /\ ~Passed("Full Pipeline")
    /\ Raised("fp_load_prices")
    /\ Succeeded("fp_extract_company")
    /\ ~Attempted("fp_load_company")
    /\ ~Attempted("fp_load_benchmark")
    /\ d_loader.fp = "closed"

\* C6 as stated: main() runs all four stages in order whatever the earlier
\* ones did, lets no stage's exception escape, and returns non-zero exactly
\* when at least one stage reported failure.
C6_MainNeverEscapes ==
    d_pc = "exited" =>
       /\ d_exit.kind = "returned"
       /\ Len(d_results) = Len(StageOrder)
       /\ \A k \in 1..Len(d_results) : d_results[k].stage = StageOrder[k]
       /\ d_exit.code # 0 <=> \E k \in 1..Len(d_results) : ~d_results[k].passed

\* the calls that are not inside a try block of their routine
UnguardedSteps == {"ex_config", "fp_config", "fp_close"}

StageOf(step) ==
    CASE step = "profiles_read" -> "Profiles"
      [] step \in {"sc_construct", "sc_query", "sc_close"} -> "Snowflake Connection"
      [] step \in {"ex_config", "ex_prices", "ex_company", "ex_benchmark"} -> "Extractors"
      [] OTHER -> "Full Pipeline"

\* C6 amended: main() runs the four stages in order; an exception raised
\* inside a stage's try block makes that stage report failure and the next
\* stage still runs, but one raised outside it (reading the ticker
\* configuration in Extractors or Full Pipeline, or loader.close() in Full
\* Pipeline's finally) escapes main() and ends the run; when main() returns,
\* all four stages have run and it returns 0 if all passed and 1 otherwise.
C6_MainAggregates ==
    /\ Len(d_results) <= Len(StageOrder)
    /\ \A k \in 1..Len(d_results) : d_results[k].stage = StageOrder[k]
    /\ \A k \in 1..Len(d_trace) :
          d_trace[k].outcome = "raise" =>
             IF d_trace[k].step \in UnguardedSteps
             THEN /\ k = Len(d_trace)
                  /\ d_pc = "exited"
                  /\ d_exit.kind = "raised"
                  /\ ~Returned(StageOf(d_trace[k].step))
             ELSE /\ d_exit.kind # "raised" => ~Passed(StageOf(d_trace[k].step))
                  /\ d_pc \in {"summary", "exited"}
                        => \/ Returned(StageOf(d_trace[k].step))
                           \/ Raised("fp_close")
    /\ d_exit.kind = "raised" =>
          /\ d_pc = "exited"
          /\ d_trace[Len(d_trace)].outcome = "raise"
          /\ d_trace[Len(d_trace)].step \in UnguardedSteps
    /\ (d_pc = "exited" /\ d_exit.kind = "returned") =>
          /\ Len(d_results) = Len(StageOrder)
          /\ d_exit.code \in {0, 1}
          /\ d_exit.code = 0 <=> \A k \in 1..Len(d_results) : d_results[k].passed

\* main() returned 1: the first stage failed, the later ones still ran and
\* the last one passed
C6_Witness ==
    /\ d_pc = "exited"
    /\ d_exit.kind = "returned"
    /\ d_exit.code = 1
    /\ Raised("profiles_read")
    /\ Raised("sc_query")
    /\ Passed("Extractors")
    /\ Passed("Full Pipeline")

====
